---------------------------- MODULE Spec2Model ----------------------------
(***************************************************************************)
(* A model of GameOfLifePythonMultiproc.py: the pseudo-random generator    *)
(* rand1, the grid initializer, the simulation engine gameOfLife, the      *)
(* worker process and main's launch / join / drain / classify loop.        *)
(*                                                                         *)
(* Four specifications share the operators that model the code:            *)
(*   SpecRand    rand1, one loop iteration per step                        *)
(*   SpecWorker  one worker process, gameOfLife one phase per step         *)
(*   Spec        main and its worker processes with their queues           *)
(*   SpecAgg     main's classification loop over an arbitrary drain order   *)
(***************************************************************************)
EXTENDS Integers, Sequences, FiniteSets, TLC

(***************************************************************************)
(* Program constants (lines 13-16) and the constants of rand1 (204-205).   *)
(***************************************************************************)
MAX_X == 500
MAX_Y == 500
STEPS_MAX == 200
UNCHANGED_MAX == 10
aa == 16807
mm == 2147483647

(***************************************************************************)
(* Bounds of the model.                                                    *)
(***************************************************************************)
\* rand1 is stepped for the seeds -MaxSeed..MaxSeed and the edge seeds.
MaxSeed == 12
\* nsims ranges over 1..MaxSims.
MaxSims == 4
\* numProcesses ranges over 1..MaxProcs.
MaxProcs == 2
\* A worker of SpecWorker runs 1..MaxMySims trials.
MaxMySims == 2
\* SpecAgg classifies up to MaxResults results.
MaxResults == 3

VARIABLES
    rnd,        \* SpecRand: the frame of one rand1 call
    wk,         \* SpecWorker: the frame of one worker call (args, i, seed, grid, queue)
    gol,        \* SpecWorker: the frame of the gameOfLife call in progress
    input,      \* Spec: the parameters main reads (lines 246-263)
    pipePages,  \* Spec: per queue: the pages the platform gave its pipe
    simsPerProcess,
    mainPc,     \* Spec: main's position
    mi,         \* Spec: main's loop index i (lines 271, 282)
    proc,       \* Spec: per process: its position, trial index and grid
    qbuf,       \* Spec: per queue: results put and not yet written to the pipe
    pipe,       \* Spec: per queue: results in the pipe, not yet taken by main
    emitted,    \* Spec: per process: every result it has put, in order (history)
                \* (qbuf, pipe and emitted hold lists of results as lists of runs)
    consumed,   \* Spec: the results main has taken, in order (the lines it prints)
    ndied, nunsettled, nstable, totalStepsStable, totalVegiesStable,
    pending     \* SpecAgg: the results not yet classified

randVars == <<rnd>>
workerVars == <<wk, gol>>
aggVars == <<ndied, nunsettled, nstable, totalStepsStable, totalVegiesStable>>
mainVars == <<input, pipePages, simsPerProcess, mainPc, mi, proc, qbuf, pipe, emitted, consumed>>
vars == <<rnd, wk, gol, input, pipePages, simsPerProcess, mainPc, mi, proc, qbuf, pipe,
          emitted, consumed, ndied, nunsettled, nstable, totalStepsStable,
          totalVegiesStable, pending>>

\* The function f itself.  The model checker evaluates a function constructor
\* only when it is applied; the comparison makes it evaluate f once, here.
Evaluated(f) == IF f = f THEN f ELSE f

(***************************************************************************)
(* rand1 (lines 203-214).                                                  *)
(*                                                                         *)
(* The code works in double precision: aa * sseed is exact (below 2^53 for *)
(* every seed of magnitude up to mm), int() truncates toward zero, and    *)
(* sseed = aa*sseed - mm*iseed is then the exact integer remainder.  The   *)
(* model computes the same quotient and remainder on integers.  The        *)
(* product aa * sseed does not fit the model checker's 32-bit integers, so *)
(* it is taken apart as mm = aa * QQ + RR (Schrage's decomposition), which *)
(* yields the same two numbers.                                            *)
(***************************************************************************)
QQ == mm \div aa
RR == mm % aa

\* <<q, r>> with aa * s = mm * q + r and 0 <= r < mm, for 0 <= s <= mm.
MulDivModNat(s) ==
    LET s1 == s \div QQ
        s0 == s % QQ
        t  == aa * s0 - RR * s1
    IN  IF t >= 0 THEN <<s1, t>> ELSE <<s1 - 1, t + mm>>

\* int(aa * sseed / mm): the quotient truncated toward zero (line 210).
TruncQuot(s) == IF s >= 0 THEN MulDivModNat(s)[1] ELSE 0 - MulDivModNat(0 - s)[1]

\* (aa * sseed) - (mm * iseed): the remainder, with the sign of sseed (line 211).
TruncRem(s) == IF s >= 0 THEN MulDivModNat(s)[2] ELSE 0 - MulDivModNat(0 - s)[2]

\* One iteration of the loop of rand1 (lines 209-212) on the frame f.
Rand1Iter(f) ==
    LET sseed1 == f.iseed
        iseed1 == TruncQuot(sseed1)
        sseed2 == TruncRem(sseed1)
        iseed2 == sseed2
    IN  [f EXCEPT !.sseed = sseed2, !.iseed = iseed2, !.i = f.i + 1]

\* Lines 203-206: the argument (kept as arg), sseed = 0, and the loop index.
Rand1Frame(iseed) == [arg |-> iseed, iseed |-> iseed, sseed |-> 0, i |-> 1, pc |-> "for"]

RECURSIVE Rand1Loop(_)
Rand1Loop(f) == IF f.i < 6 THEN Rand1Loop(Rand1Iter(f)) ELSE f

\* rand1(iseed) returns sseed / mm; the model returns the numerator sseed.
rand1(iseed) == Rand1Loop(Rand1Frame(iseed)).sseed


(***************************************************************************)
(* Probabilities.  rand1 returns sseed / mm and initializeGrid compares it *)
(* with prob; for an integer sseed, sseed / mm > prob exactly when         *)
(* sseed > floor(prob * mm), so a probability is held as that threshold:   *)
(* 0 is 0.0, mm \div 2 is 0.5 and mm is 1.0.                               *)
(***************************************************************************)
ProbZero == 0
ProbHalf == mm \div 2
ProbOne == mm
Probabilities == {ProbZero, ProbHalf, ProbOne}

(***************************************************************************)
(* The grid buffer (line 43) is (MAX_Y + 2) lists of (MAX_X + 2) zeros.    *)
(* A worker passes the same nx, ny to every call, and the model holds the  *)
(* part of the buffer those calls index: rows 0..nx+1, columns 0..ny+1.    *)
(* tempGrid (line 105) is MAX_Y lists of MAX_X zeros; an index outside     *)
(* raises IndexError.                                                      *)
(***************************************************************************)
Window(nx, ny) == (0 .. nx + 1) \X (0 .. ny + 1)
Interior(nx, ny) == (1 .. nx) \X (1 .. ny)
NewGrid(nx, ny) == Evaluated([c \in Window(nx, ny) |-> 0])

GridIndexOK(i, j) == i \in 0 .. MAX_Y + 1 /\ j \in 0 .. MAX_X + 1
TempIndexOK(i, j) == i \in 0 .. MAX_Y - 1 /\ j \in 0 .. MAX_X - 1
TempWindow(nx, ny) == {c \in Interior(nx, ny) : TempIndexOK(c[1], c[2])}

\* A mutant of initializeGrid: a cell that draws no vegetation is not written
\* and keeps what the buffer held.
initializeGridSetOnly(grid, nx, ny, seed, prob) ==
    Evaluated([c \in DOMAIN grid |->
        IF c \in Interior(nx, ny) /\ ~(rand1(seed + (ny * c[1] + c[2])) > prob)
        THEN 1
        ELSE grid[c]])

\* initializeGrid (lines 65-79): every interior cell is written, nothing else.
initializeGrid(grid, nx, ny, seed, prob) ==
    Evaluated([c \in DOMAIN grid |->
        IF c \in Interior(nx, ny)
        THEN IF rand1(seed + (ny * c[1] + c[2])) > prob THEN 0 ELSE 1
        ELSE grid[c]])

(***************************************************************************)
(* gameOfLife (lines 96-192).  Its frame g holds its arguments and locals; *)
(* the grid is the caller's buffer.  neighbors holds, per cell, the value  *)
(* the local of that name took in the last sweep, and history the totals   *)
(* that line 117 has counted in this call, oldest first.                   *)
(***************************************************************************)
\* The sum of the interior cells numbered lo..hi in the order of the loops of
\* lines 115-116 (cell k is row ((k-1) \div ny) + 1, column ((k-1) % ny) + 1).
\* The sum is split in halves to keep the evaluation shallow.
RECURSIVE SumRange(_, _, _, _)
SumRange(grid, ny, lo, hi) ==
    IF lo > hi THEN 0
    ELSE IF lo = hi THEN grid[<<((lo - 1) \div ny) + 1, ((lo - 1) % ny) + 1>>]
    ELSE LET mid == (lo + hi) \div 2
         IN  SumRange(grid, ny, lo, mid) + SumRange(grid, ny, mid + 1, hi)

\* Lines 113-117: the total of the interior cells.
CountVegies(grid, nx, ny) == SumRange(grid, ny, 1, nx * ny)

\* A mutant of GolFrame: the three remembered totals start at 0.
GolFrameZeroTotals(nx, ny, maxSteps, maxUnchanged) ==
    [nx |-> nx, ny |-> ny, maxSteps |-> maxSteps, maxUnchanged |-> maxUnchanged,
     steps |-> 1, converged |-> FALSE, nUnchanged |-> 0,
     oldVegies |-> 0, old2Vegies |-> 0, old3Vegies |-> 0, vegies |-> 1,
     neighbors |-> [c \in Interior(nx, ny) |-> 0],
     tempGrid |-> [c \in TempWindow(nx, ny) |-> 0],
     history |-> <<>>,
     pc |-> "while"]

\* Lines 97-105.
GolFrame(nx, ny, maxSteps, maxUnchanged) ==
    [nx |-> nx, ny |-> ny, maxSteps |-> maxSteps, maxUnchanged |-> maxUnchanged,
     steps |-> 1, converged |-> FALSE, nUnchanged |-> 0,
     oldVegies |-> -1, old2Vegies |-> -1, old3Vegies |-> -1, vegies |-> 1,
     neighbors |-> [c \in Interior(nx, ny) |-> 0],
     tempGrid |-> [c \in TempWindow(nx, ny) |-> 0],
     history |-> <<>>,
     pc |-> "while"]

\* A mutant of LoopTest: the test for remaining vegetation left out.
LoopTestNoVegies(g) == ~g.converged /\ g.steps < g.maxSteps

\* A mutant of LoopTest: the step limit tested with <= instead of <.
LoopTestInclusive(g) == ~g.converged /\ g.vegies > 0 /\ g.steps <= g.maxSteps

\* The loop test of line 110.
LoopTest(g) == ~g.converged /\ g.vegies > 0 /\ g.steps < g.maxSteps

\* Lines 113-137: count, compare with the last three totals, shift the history.
CountPhase(g, grid) ==
    LET v == CountVegies(grid, g.nx, g.ny)
        match == v = g.oldVegies \/ v = g.old2Vegies \/ v = g.old3Vegies
        n == IF match THEN g.nUnchanged + 1 ELSE 0
    IN  [g EXCEPT !.vegies = v,
                  !.nUnchanged = n,
                  !.converged = IF match /\ n >= g.maxUnchanged THEN TRUE ELSE g.converged,
                  !.old3Vegies = g.old2Vegies,
                  !.old2Vegies = g.oldVegies,
                  !.oldVegies = v,
                  !.history = Append(g.history, v)]

\* A mutant of WrapEdges: the row copy covers columns 1..ny only, so that the
\* four corners keep what they held.
WrapEdgesNoCorners(grid, nx, ny) ==
    LET sides == Evaluated([c \in DOMAIN grid |->
                    IF c[1] \in 1 .. nx /\ c[2] = 0 THEN grid[<<c[1], ny>>]
                    ELSE IF c[1] \in 1 .. nx /\ c[2] = ny + 1 THEN grid[<<c[1], 1>>]
                    ELSE grid[c]])
    IN  Evaluated([c \in DOMAIN grid |->
            IF c[1] = 0 /\ c[2] \in 1 .. ny THEN sides[<<nx, c[2]>>]
            ELSE IF c[1] = nx + 1 /\ c[2] \in 1 .. ny THEN sides[<<1, c[2]>>]
            ELSE sides[c]])

\* Lines 149-151, then lines 153-155 on the result.
WrapEdges(grid, nx, ny) ==
    LET sides == Evaluated([c \in DOMAIN grid |->
                    IF c[1] \in 1 .. nx /\ c[2] = 0 THEN grid[<<c[1], ny>>]
                    ELSE IF c[1] \in 1 .. nx /\ c[2] = ny + 1 THEN grid[<<c[1], 1>>]
                    ELSE grid[c]])
    IN  Evaluated([c \in DOMAIN grid |->
            IF c[1] = 0 THEN sides[<<nx, c[2]>>]
            ELSE IF c[1] = nx + 1 THEN sides[<<1, c[2]>>]
            ELSE sides[c]])

\* Lines 161-164.
Neighbors(grid, i, j) ==
    grid[<<i - 1, j - 1>>] + grid[<<i - 1, j>>] + grid[<<i - 1, j + 1>>]
    + grid[<<i, j - 1>>] + grid[<<i, j + 1>>]
    + grid[<<i + 1, j - 1>>] + grid[<<i + 1, j>>] + grid[<<i + 1, j + 1>>]

\* A mutant of NewValue: the two clamps left out.
NewValueUnclamped(v, n) ==
    IF n >= 25 \/ n <= 3 THEN v - 1
    ELSE IF n <= 15 THEN v + 1
    ELSE v

\* Lines 165-183: the new value of a cell holding v with neighbour sum n.
NewValue(v, n) ==
    IF n >= 25 \/ n <= 3
    THEN IF v - 1 < 0 THEN 0 ELSE v - 1
    ELSE IF n <= 15
    THEN IF v + 1 > 10 THEN 10 ELSE v + 1
    ELSE v

\* Whether the sweep of lines 159-183 indexes tempGrid outside its allocation.
TempRaises(nx, ny) == \E c \in {<<nx, 1>>, <<1, ny>>} : ~TempIndexOK(c[1], c[2])

\* Lines 159-183, when no index is out of range.
TimeStep(g, grid) ==
    [g EXCEPT
        !.neighbors = Evaluated([c \in Interior(g.nx, g.ny) |->
                                    Neighbors(grid, c[1], c[2])]),
        !.tempGrid = Evaluated([c \in DOMAIN g.tempGrid |->
                                    NewValue(grid[c], Neighbors(grid, c[1], c[2]))])]

\* Lines 186-188.
CopyBack(grid, tempGrid, nx, ny) ==
    Evaluated([c \in DOMAIN grid |->
                 IF c \in Interior(nx, ny) THEN tempGrid[c] ELSE grid[c]])

(***************************************************************************)
(* One phase of gameOfLife on st = [g |-> frame, grid |-> buffer].         *)
(***************************************************************************)
GolWhile(st) ==
    [st EXCEPT !.g.pc = IF LoopTest(st.g) THEN "count" ELSE "return"]

\* A mutant of GolCount: the update runs in the converging iteration too.
GolCountNoSkip(st) ==
    [st EXCEPT !.g = [CountPhase(st.g, st.grid) EXCEPT !.pc = "wrap"]]

\* Lines 113-137 and the test of line 145.
GolCount(st) ==
    LET g1 == CountPhase(st.g, st.grid)
    IN  [st EXCEPT !.g = [g1 EXCEPT !.pc = IF ~g1.converged THEN "wrap" ELSE "while"]]

GolWrap(st) ==
    [st EXCEPT !.grid = WrapEdges(st.grid, st.g.nx, st.g.ny), !.g.pc = "step"]

GolTimeStep(st) ==
    IF TempRaises(st.g.nx, st.g.ny)
    THEN [st EXCEPT !.g.pc = "IndexError"]
    ELSE [st EXCEPT !.g = [TimeStep(st.g, st.grid) EXCEPT !.pc = "copy"]]

\* Lines 186-190.
GolCopy(st) ==
    [st EXCEPT !.grid = CopyBack(st.grid, st.g.tempGrid, st.g.nx, st.g.ny),
               !.g.steps = st.g.steps + 1,
               !.g.pc = "while"]

GolPhase(st) ==
    CASE st.g.pc = "while" -> GolWhile(st)
      [] st.g.pc = "count" -> GolCount(st)
      [] st.g.pc = "wrap"  -> GolWrap(st)
      [] st.g.pc = "step"  -> GolTimeStep(st)
      [] st.g.pc = "copy"  -> GolCopy(st)

RECURSIVE GolRun(_)
GolRun(st) == IF st.g.pc \in {"return", "IndexError"} THEN st ELSE GolRun(GolPhase(st))

\* The whole call: the frame and the grid as gameOfLife leaves them; what
\* it returns is <<g.steps, g.vegies>> (line 192) unless g.pc = "IndexError".
gameOfLife(grid, nx, ny, maxSteps, maxUnchanged) ==
    GolRun([g |-> GolFrame(nx, ny, maxSteps, maxUnchanged), grid |-> grid])


(***************************************************************************)
(* Values of the variables a specification does not use.                   *)
(***************************************************************************)
IdleRand == rnd = [pc |-> "idle"]
IdleWorker == wk = [pc |-> "idle"] /\ gol = [pc |-> "idle"]
IdleMain ==
    /\ input = <<>> /\ pipePages = <<>> /\ simsPerProcess = 0
    /\ mainPc = "idle" /\ mi = 0
    /\ proc = <<>> /\ qbuf = <<>> /\ pipe = <<>> /\ emitted = <<>> /\ consumed = <<>>
IdleAgg ==
    /\ ndied = 0 /\ nunsettled = 0 /\ nstable = 0
    /\ totalStepsStable = 0 /\ totalVegiesStable = 0
IdlePending == pending = <<>>

(***************************************************************************)
(* SpecRand: rand1 on a seed drawn from SeedInputs, one iteration a step.  *)
(***************************************************************************)
SeedInputs == (-MaxSeed .. MaxSeed) \cup {mm - 1, mm, 1 - mm, -mm}

RandInit ==
    /\ rnd \in {Rand1Frame(s) : s \in SeedInputs}
    /\ IdleWorker /\ IdleMain /\ IdleAgg /\ IdlePending

\* for i in xrange(1, 6): one pass of lines 209-212.
Rand1Step ==
    /\ rnd.pc = "for" /\ rnd.i < 6
    /\ rnd' = Rand1Iter(rnd)
    /\ UNCHANGED <<workerVars, mainVars, aggVars, pending>>

\* Line 214: return sseed / mm.
Rand1Return ==
    /\ rnd.pc = "for" /\ rnd.i = 6
    /\ rnd' = [rnd EXCEPT !.pc = "done"]
    /\ UNCHANGED <<workerVars, mainVars, aggVars, pending>>

RandNext == Rand1Step \/ Rand1Return

SpecRand == RandInit /\ [][RandNext]_vars

(***************************************************************************)
(* SpecWorker: one call of worker (lines 38-50), gameOfLife a phase a step.*)
(***************************************************************************)
Dims == {<<1, 1>>, <<2, 2>>, <<2, 3>>, <<3, 3>>, <<MAX_X, 1>>, <<1, MAX_Y>>}
StepLimits == {1, 2, 4, STEPS_MAX}
UnchangedLimits == {1, 2, UNCHANGED_MAX}
Seed0s == {-1, 0, 1}

\* Lines 40-43 for the given arguments; the queue starts empty.
WorkerFrame(d, maxSteps, maxUnchanged, prob, seed0, mySims, myProcess) ==
    [nx |-> d[1], ny |-> d[2], maxSteps |-> maxSteps, maxUnchanged |-> maxUnchanged,
     prob |-> prob, seed0 |-> seed0, mySims |-> mySims, myProcess |-> myProcess,
     steps |-> 0, vegies |-> 0, seed |-> 0, i |-> 0,
     grid |-> NewGrid(d[1], d[2]), initVegies |-> 0, queue |-> <<>>, pc |-> "for"]

\* A mutant of TrialSeed: the process number left out.
TrialSeedLocal(seed0, myProcess, mySims, i) == seed0 * (mySims - i)

\* Line 46.
TrialSeed(seed0, myProcess, mySims, i) == seed0 * ((myProcess * mySims) - i)

WorkerInit ==
    /\ wk \in {WorkerFrame(d, ms, mu, p, s0, n, w) :
                 d \in Dims, ms \in StepLimits, mu \in UnchangedLimits,
                 p \in Probabilities, s0 \in Seed0s, n \in 1 .. MaxMySims, w \in 1 .. 2}
    /\ gol = [pc |-> "idle"]
    /\ IdleRand /\ IdleMain /\ IdleAgg /\ IdlePending

\* Lines 45-47: the next trial's seed and grid.
WorkerInitGrid ==
    /\ wk.pc = "for" /\ wk.i < wk.mySims
    /\ LET seed == TrialSeed(wk.seed0, wk.myProcess, wk.mySims, wk.i)
           grid == initializeGrid(wk.grid, wk.nx, wk.ny, seed, wk.prob)
       IN  wk' = [wk EXCEPT !.seed = seed, !.grid = grid,
                            !.initVegies = CountVegies(grid, wk.nx, wk.ny),
                            !.pc = "call"]
    /\ UNCHANGED <<gol, randVars, mainVars, aggVars, pending>>

\* Line 48, the call: lines 97-105.
WorkerCall ==
    /\ wk.pc = "call"
    /\ gol' = GolFrame(wk.nx, wk.ny, wk.maxSteps, wk.maxUnchanged)
    /\ wk' = [wk EXCEPT !.pc = "gol"]
    /\ UNCHANGED <<randVars, mainVars, aggVars, pending>>

\* Line 110.
GolWhileStep ==
    /\ wk.pc = "gol" /\ gol.pc = "while"
    /\ LET st == GolWhile([g |-> gol, grid |-> wk.grid])
       IN  gol' = st.g /\ wk' = [wk EXCEPT !.grid = st.grid]
    /\ UNCHANGED <<randVars, mainVars, aggVars, pending>>

\* Lines 113-137 and the test of line 145.
GolCountStep ==
    /\ wk.pc = "gol" /\ gol.pc = "count"
    /\ LET st == GolCount([g |-> gol, grid |-> wk.grid])
       IN  gol' = st.g /\ wk' = [wk EXCEPT !.grid = st.grid]
    /\ UNCHANGED <<randVars, mainVars, aggVars, pending>>

\* Lines 149-155.
GolWrapStep ==
    /\ wk.pc = "gol" /\ gol.pc = "wrap"
    /\ LET st == GolWrap([g |-> gol, grid |-> wk.grid])
       IN  gol' = st.g /\ wk' = [wk EXCEPT !.grid = st.grid]
    /\ UNCHANGED <<randVars, mainVars, aggVars, pending>>

\* Lines 159-183.
GolTimeStepStep ==
    /\ wk.pc = "gol" /\ gol.pc = "step"
    /\ LET st == GolTimeStep([g |-> gol, grid |-> wk.grid])
       IN  gol' = st.g /\ wk' = [wk EXCEPT !.grid = st.grid]
    /\ UNCHANGED <<randVars, mainVars, aggVars, pending>>

\* Lines 186-190.
GolCopyStep ==
    /\ wk.pc = "gol" /\ gol.pc = "copy"
    /\ LET st == GolCopy([g |-> gol, grid |-> wk.grid])
       IN  gol' = st.g /\ wk' = [wk EXCEPT !.grid = st.grid]
    /\ UNCHANGED <<randVars, mainVars, aggVars, pending>>

\* Line 192 and lines 48-49: the result is returned and put on the queue.
WorkerPut ==
    /\ wk.pc = "gol" /\ gol.pc = "return"
    /\ wk' = [wk EXCEPT !.steps = gol.steps, !.vegies = gol.vegies,
                        !.queue = Append(wk.queue, <<gol.steps, gol.vegies>>),
                        !.i = wk.i + 1, !.pc = "for"]
    /\ gol' = [pc |-> "idle"]
    /\ UNCHANGED <<randVars, mainVars, aggVars, pending>>

\* An IndexError in gameOfLife: nothing catches it, the worker ends.
WorkerRaise ==
    /\ wk.pc = "gol" /\ gol.pc = "IndexError"
    /\ wk' = [wk EXCEPT !.pc = "raised"]
    /\ gol' = [pc |-> "idle"]
    /\ UNCHANGED <<randVars, mainVars, aggVars, pending>>

\* Line 50.
WorkerReturn ==
    /\ wk.pc = "for" /\ wk.i = wk.mySims
    /\ wk' = [wk EXCEPT !.pc = "returned"]
    /\ UNCHANGED <<gol, randVars, mainVars, aggVars, pending>>

WorkerNext ==
    \/ WorkerInitGrid \/ WorkerCall
    \/ GolWhileStep \/ GolCountStep \/ GolWrapStep \/ GolTimeStepStep \/ GolCopyStep
    \/ WorkerPut \/ WorkerRaise \/ WorkerReturn

SpecWorker == WorkerInit /\ [][WorkerNext]_vars

(***************************************************************************)
(* main's classification (lines 296-305) and averages (lines 309-311).     *)
(* A result is <<steps, vegies>>; the counters are the record agg.         *)
(***************************************************************************)
\* A mutant of Classify: the step limit is tested before the vegetation.
ClassifyStepsFirst(result, maxSteps) ==
    IF result[1] >= maxSteps THEN "unsettled"
    ELSE IF result[2] = 0 THEN "died"
    ELSE "stable"

\* The class lines 296-305 put a result in.
Classify(result, maxSteps) ==
    IF result[2] = 0 THEN "died"
    ELSE IF result[1] >= maxSteps THEN "unsettled"
    ELSE "stable"

\* A mutant of Record: the second test an if instead of an elif, so that an
\* unsettled trial runs into the else branch as well.
RecordNoElif(agg, result, maxSteps) ==
    LET a1 == IF result[2] = 0 THEN [agg EXCEPT !.ndied = agg.ndied + 1] ELSE agg
    IN  IF result[1] >= maxSteps
        THEN [a1 EXCEPT !.nunsettled = a1.nunsettled + 1]
        ELSE [a1 EXCEPT !.nstable = a1.nstable + 1,
                        !.totalStepsStable = a1.totalStepsStable + result[1],
                        !.totalVegiesStable = a1.totalVegiesStable + result[2]]

\* A mutant of Record: the totals keep the last stabilized trial only.
RecordOverwrite(agg, result, maxSteps) ==
    IF result[2] = 0 THEN [agg EXCEPT !.ndied = agg.ndied + 1]
    ELSE IF result[1] >= maxSteps THEN [agg EXCEPT !.nunsettled = agg.nunsettled + 1]
    ELSE [agg EXCEPT !.nstable = agg.nstable + 1,
                     !.totalStepsStable = result[1],
                     !.totalVegiesStable = result[2]]

\* Lines 296-305.
Record(agg, result, maxSteps) ==
    IF result[2] = 0 THEN [agg EXCEPT !.ndied = agg.ndied + 1]
    ELSE IF result[1] >= maxSteps THEN [agg EXCEPT !.nunsettled = agg.nunsettled + 1]
    ELSE [agg EXCEPT !.nstable = agg.nstable + 1,
                     !.totalStepsStable = agg.totalStepsStable + result[1],
                     !.totalVegiesStable = agg.totalVegiesStable + result[2]]

\* Lines 230-234.
NewAgg == [ndied |-> 0, nunsettled |-> 0, nstable |-> 0,
           totalStepsStable |-> 0, totalVegiesStable |-> 0]

\* The float total / n, held as the exact fraction <<total, n>>.
Quotient(total, n) == <<total, n>>

\* Lines 309-311: the totals become the averages when a trial has stabilized.
Finalize(agg) ==
    IF agg.nstable > 0
    THEN [agg EXCEPT !.totalStepsStable = Quotient(agg.totalStepsStable, agg.nstable),
                     !.totalVegiesStable = Quotient(agg.totalVegiesStable, agg.nstable)]
    ELSE agg

\* Lines 315-317: 100.0 * n / nsims, as a fraction.
Percentage(n, nsims) == Quotient(100 * n, nsims)

Agg == [ndied |-> ndied, nunsettled |-> nunsettled, nstable |-> nstable,
        totalStepsStable |-> totalStepsStable, totalVegiesStable |-> totalVegiesStable]

SetAgg(a) ==
    /\ ndied' = a.ndied /\ nunsettled' = a.nunsettled /\ nstable' = a.nstable
    /\ totalStepsStable' = a.totalStepsStable
    /\ totalVegiesStable' = a.totalVegiesStable

(***************************************************************************)
(* Spec: main (lines 265-311) and the worker processes.                    *)
(*                                                                         *)
(* A multiprocessing.Queue is a buffer in the putting process (qbuf), a    *)
(* feeder thread that writes the buffer to a pipe, and the pipe (pipe),    *)
(* which holds a bounded amount and blocks the feeder when it is full.  A  *)
(* process that has put on a queue ends only when its feeder has written   *)
(* everything: join returns only then.  queue.empty() tells whether the    *)
(* pipe is empty.  A worker's trial touches only the worker's own memory   *)
(* and is one step.                                                        *)
(*                                                                         *)
(* The pipe is the operating system's: a number of pages of PageBytes     *)
(* bytes, a message that does not fit in the page in use starting a new    *)
(* page.  How many pages a pipe has is the platform's choice when the      *)
(* queue is made (line 272) and no part of the program: Linux gives a pipe *)
(* 16 pages, and 2 pages when its user holds many pipes already            *)
(* (PipePageCounts), so the queues of one run may differ; pipePages[w] is  *)
(* what queue w got.  A result is one message of ResultBytes bytes under   *)
(* Python 2, the interpreter the file is written for (xrange, line 45): a  *)
(* 4-byte length and the 10-byte protocol-2 pickle of a pair of integers   *)
(* that are both below 256, as every result of the grids modelled here is. *)
(* Hence the pipe of queue w holds PipeCap(w) results: 584 for 2 pages,    *)
(* 4672 for 16.                                                            *)
(*                                                                         *)
(* queue.put appends to the buffer and returns: the worker runs its next   *)
(* trial whether or not the feeder has written the earlier results, and    *)
(* the feeder writes whenever it has a result and the pipe has room.       *)
(*                                                                         *)
(* A list of results is held as its list of runs <<result, count>>, count  *)
(* >= 1, adjacent runs of different results: <<r, r, r, q>> is held as     *)
(* << <<r, 3>>, <<q, 1>> >>.                                               *)
(***************************************************************************)
PipePageCounts == {2, 16}
PageBytes == 4096
ResultBytes == 14
PipeCap(w) == pipePages[w] * (PageBytes \div ResultBytes)

\* The number of results in the list q.
RECURSIVE QLen(_)
QLen(q) == IF q = <<>> THEN 0 ELSE q[1][2] + QLen(Tail(q))

\* The list q with the result r added at its end.
QPush(q, r) ==
    IF q # <<>> /\ q[Len(q)][1] = r
    THEN [q EXCEPT ![Len(q)] = <<r, q[Len(q)][2] + 1>>]
    ELSE Append(q, <<r, 1>>)

\* The first and the last result of the list q, and q without its first.
QHead(q) == q[1][1]
QLast(q) == q[Len(q)][1]
QTail(q) == IF q[1][2] = 1 THEN Tail(q) ELSE [q EXCEPT ![1] = <<q[1][1], q[1][2] - 1>>]

\* The feeder thread of queue w has a result to write and room to write it.
FeederCanWrite(w) == qbuf[w] # <<>> /\ QLen(pipe[w]) < PipeCap(w)

MainDims == {<<1, 1>>, <<3, 3>>, <<MAX_X, 1>>}
MainSeed0s == {0, 1}

Procs == 1 .. input.numProcesses

\* Lines 225-226: main passes these to every worker.
maxSteps == STEPS_MAX
maxUnchanged == UNCHANGED_MAX

\* The inputs: every grid size with probability 0.0 and seed0 1; the small
\* grids with the other probabilities; the 1 x 1 grid with seed0 0.
Init ==
    /\ input \in [nx : {d[1] : d \in MainDims}, ny : {d[2] : d \in MainDims},
                  probability : Probabilities, seed0 : MainSeed0s,
                  nsims : 1 .. MaxSims, numProcesses : 1 .. MaxProcs]
    /\ <<input.nx, input.ny>> \in MainDims
    /\ input.nx = MAX_X => (input.probability = ProbZero /\ input.seed0 = 1)
    /\ input.seed0 = 0 => (input.nx = 1 /\ input.probability = ProbHalf)
    /\ input.probability = ProbOne => input.nx = 1
    /\ pipePages = [w \in Procs |-> 0]
    /\ simsPerProcess = input.nsims \div input.numProcesses
    /\ mainPc = "launch" /\ mi = 0
    /\ proc = [w \in Procs |-> [pc |-> "unborn", alive |-> FALSE, i |-> 0, grid |-> <<>>]]
    /\ qbuf = [w \in Procs |-> <<>>]
    /\ pipe = [w \in Procs |-> <<>>]
    /\ emitted = [w \in Procs |-> <<>>]
    /\ consumed = <<>>
    /\ ndied = 0 /\ nunsettled = 0 /\ nstable = 0
    /\ totalStepsStable = 0 /\ totalVegiesStable = 0
    /\ IdleRand /\ IdleWorker /\ IdlePending

\* Lines 271-278: one pass of the launch loop; queue i + 1 is made on a pipe
\* of the size the platform gives it, and process i + 1 starts (line 43).
MainLaunch ==
    /\ mainPc = "launch" /\ mi < input.numProcesses
    /\ proc' = [proc EXCEPT ![mi + 1] =
                   [pc |-> "for", alive |-> TRUE, i |-> 0,
                    grid |-> NewGrid(input.nx, input.ny)]]
    /\ mi' = IF mi + 1 = input.numProcesses THEN 0 ELSE mi + 1
    /\ mainPc' = IF mi + 1 = input.numProcesses THEN "join" ELSE "launch"
    /\ \E pages \in PipePageCounts : pipePages' = [pipePages EXCEPT ![mi + 1] = pages]
    /\ UNCHANGED <<input, simsPerProcess, qbuf, pipe, emitted, consumed,
                   aggVars, randVars, workerVars, pending>>

\* Lines 45-49 in process w: one trial, and its result put on the queue; or
\* the IndexError of gameOfLife, which nothing catches.
ProcTrial(w) ==
    /\ proc[w].pc = "for" /\ proc[w].i < simsPerProcess
    /\ LET seed == TrialSeed(input.seed0, w, simsPerProcess, proc[w].i)
           grid == initializeGrid(proc[w].grid, input.nx, input.ny, seed,
                                  input.probability)
           st == gameOfLife(grid, input.nx, input.ny, maxSteps, maxUnchanged)
       IN  IF st.g.pc = "IndexError"
           THEN /\ proc' = [proc EXCEPT ![w].pc = "raised", ![w].grid = st.grid]
                /\ UNCHANGED <<qbuf, emitted>>
           ELSE /\ proc' = [proc EXCEPT ![w].i = proc[w].i + 1, ![w].grid = st.grid]
                /\ qbuf' = [qbuf EXCEPT ![w] = QPush(@, <<st.g.steps, st.g.vegies>>)]
                /\ emitted' = [emitted EXCEPT ![w] = QPush(@, <<st.g.steps, st.g.vegies>>)]
    /\ UNCHANGED <<input, pipePages, simsPerProcess, mainPc, mi, pipe, consumed,
                   aggVars, randVars, workerVars, pending>>

\* Line 50 in process w.
ProcReturn(w) ==
    /\ proc[w].pc = "for" /\ proc[w].i = simsPerProcess
    /\ proc' = [proc EXCEPT ![w].pc = "returned"]
    /\ UNCHANGED <<input, pipePages, simsPerProcess, mainPc, mi, qbuf, pipe, emitted, consumed,
                   aggVars, randVars, workerVars, pending>>

\* The feeder thread of queue w writes the oldest buffered result to the pipe.
Feed(w) ==
    /\ proc[w].alive
    /\ FeederCanWrite(w)
    /\ pipe' = [pipe EXCEPT ![w] = QPush(@, QHead(qbuf[w]))]
    /\ qbuf' = [qbuf EXCEPT ![w] = QTail(@)]
    /\ UNCHANGED <<input, pipePages, simsPerProcess, mainPc, mi, proc, emitted, consumed,
                   aggVars, randVars, workerVars, pending>>

\* Process w ends: worker has returned or raised, and the feeder has written
\* everything that was put.
ProcExit(w) ==
    /\ proc[w].alive /\ proc[w].pc \in {"returned", "raised"}
    /\ qbuf[w] = <<>>
    /\ proc' = [proc EXCEPT ![w].alive = FALSE]
    /\ UNCHANGED <<input, pipePages, simsPerProcess, mainPc, mi, qbuf, pipe, emitted, consumed,
                   aggVars, randVars, workerVars, pending>>

\* A mutant of JoinReturns: join does not wait.
JoinReturnsAtOnce(w) == TRUE

\* processList[i].join() (line 283) returns when process w has ended.
JoinReturns(w) == ~proc[w].alive

\* Lines 283-284.
MainJoin ==
    /\ mainPc = "join"
    /\ JoinReturns(mi + 1)
    /\ mainPc' = "drain"
    /\ UNCHANGED <<input, pipePages, simsPerProcess, mi, proc, qbuf, pipe, emitted, consumed,
                   aggVars, randVars, workerVars, pending>>

\* A mutant of QueueGet: the newest result first.
QueueGetNewest(p) ==
    <<QLast(p),
      IF p[Len(p)][2] = 1 THEN SubSeq(p, 1, Len(p) - 1)
      ELSE [p EXCEPT ![Len(p)] = <<p[Len(p)][1], p[Len(p)][2] - 1>>]>>

\* queue.get() (line 287) on the pipe contents p: <<the result, what is left>>.
QueueGet(p) == <<QHead(p), QTail(p)>>

\* Lines 286-305: the queue is not empty; one result is taken and recorded.
MainGet ==
    /\ mainPc = "drain"
    /\ pipe[mi + 1] # <<>>
    /\ LET got == QueueGet(pipe[mi + 1])
       IN  /\ pipe' = [pipe EXCEPT ![mi + 1] = got[2]]
           /\ consumed' = Append(consumed, got[1])
           /\ SetAgg(Record(Agg, got[1], maxSteps))
    /\ UNCHANGED <<input, pipePages, simsPerProcess, mainPc, mi, proc, qbuf, emitted,
                   randVars, workerVars, pending>>

\* Line 286 finds the queue empty: the next pass of the loop of line 282, or
\* the end of the loop.
MainNextQueue ==
    /\ mainPc = "drain"
    /\ pipe[mi + 1] = <<>>
    /\ mi' = mi + 1
    /\ mainPc' = IF mi + 1 = input.numProcesses THEN "finalize" ELSE "join"
    /\ UNCHANGED <<input, pipePages, simsPerProcess, proc, qbuf, pipe, emitted, consumed,
                   aggVars, randVars, workerVars, pending>>

\* Lines 309-311.
MainFinalize ==
    /\ mainPc = "finalize"
    /\ SetAgg(Finalize(Agg))
    /\ mainPc' = "done"
    /\ UNCHANGED <<input, pipePages, simsPerProcess, mi, proc, qbuf, pipe, emitted, consumed,
                   randVars, workerVars, pending>>

Next ==
    \/ MainLaunch \/ MainJoin \/ MainGet \/ MainNextQueue \/ MainFinalize
    \/ \E w \in Procs : ProcTrial(w)
    \/ \E w \in Procs : ProcReturn(w)
    \/ \E w \in Procs : Feed(w)
    \/ \E w \in Procs : ProcExit(w)

Spec == Init /\ [][Next]_vars

(***************************************************************************)
(* SpecJoin: the steps of Spec on the run of one process whose results are *)
(* one more than a pipe of 2 pages holds.                                  *)
(***************************************************************************)
LargeInput ==
    [nx |-> 1, ny |-> 1, probability |-> ProbZero, seed0 |-> 1,
     nsims |-> 2 * (PageBytes \div ResultBytes) + 1, numProcesses |-> 1]

JoinInit ==
    /\ input = LargeInput
    /\ pipePages = [w \in Procs |-> 0]
    /\ simsPerProcess = input.nsims \div input.numProcesses
    /\ mainPc = "launch" /\ mi = 0
    /\ proc = [w \in Procs |-> [pc |-> "unborn", alive |-> FALSE, i |-> 0, grid |-> <<>>]]
    /\ qbuf = [w \in Procs |-> <<>>]
    /\ pipe = [w \in Procs |-> <<>>]
    /\ emitted = [w \in Procs |-> <<>>]
    /\ consumed = <<>>
    /\ ndied = 0 /\ nunsettled = 0 /\ nstable = 0
    /\ totalStepsStable = 0 /\ totalVegiesStable = 0
    /\ IdleRand /\ IdleWorker /\ IdlePending

SpecJoin == JoinInit /\ [][Next]_vars

(***************************************************************************)
(* SpecAgg: the classification of lines 296-305 applied to a fixed list of *)
(* results in an arbitrary order, then lines 309-311.                      *)
(***************************************************************************)
ResultSamples == {<<2, 0>>, <<12, 2>>, <<14, 23>>, <<STEPS_MAX, 5>>, <<STEPS_MAX, 0>>}

ResultLists == UNION {[1 .. n -> ResultSamples] : n \in 0 .. MaxResults}

AggInit ==
    /\ pending \in {[results |-> r, left |-> 1 .. Len(r), order |-> <<>>, done |-> FALSE] :
                      r \in ResultLists}
    /\ ndied = 0 /\ nunsettled = 0 /\ nstable = 0
    /\ totalStepsStable = 0 /\ totalVegiesStable = 0
    /\ IdleRand /\ IdleWorker /\ IdleMain

\* Lines 287-305 for any one of the results not yet taken.
AggGet ==
    /\ \E k \in pending.left :
          /\ SetAgg(Record(Agg, pending.results[k], maxSteps))
          /\ pending' = [pending EXCEPT !.left = @ \ {k}, !.order = Append(@, k)]
    /\ UNCHANGED <<randVars, workerVars, mainVars>>

\* Lines 309-311, once every result is taken.
AggFinalize ==
    /\ pending.left = {} /\ ~pending.done
    /\ SetAgg(Finalize(Agg))
    /\ pending' = [pending EXCEPT !.done = TRUE]
    /\ UNCHANGED <<randVars, workerVars, mainVars>>

AggNext == AggGet \/ AggFinalize

SpecAgg == AggInit /\ [][AggNext]_vars

(***************************************************************************)
(* Definitions the properties below share.                                 *)
(***************************************************************************)
RECURSIVE SumLen(_, _)
SumLen(f, n) == IF n = 0 THEN 0 ELSE SumLen(f, n - 1) + QLen(f[n])

\* The number of results the worker processes have put.
TotalEmitted == SumLen(emitted, input.numProcesses)

Classified == ndied + nunsettled + nstable

\* The list of results classified in the order of the list.
RECURSIVE RecordAll(_, _)
RecordAll(agg, results) ==
    IF results = <<>> THEN agg
    ELSE RecordAll(Record(agg, Head(results), maxSteps), Tail(results))

\* What trial i of process w returns when it runs on a buffer of its own,
\* as a function of main's input alone; <<>> when it raises.
TrialAlone(w, i) ==
    LET seed == TrialSeed(input.seed0, w, simsPerProcess, i)
        grid == initializeGrid(NewGrid(input.nx, input.ny), input.nx, input.ny, seed,
                               input.probability)
        st == gameOfLife(grid, input.nx, input.ny, maxSteps, maxUnchanged)
    IN  IF st.g.pc = "IndexError" THEN <<>> ELSE <<st.g.steps, st.g.vegies>>

\* The results of process w in order, up to the first trial that raises.
RECURSIVE WorkerAlone(_, _)
WorkerAlone(w, i) ==
    IF i = simsPerProcess \/ TrialAlone(w, i) = <<>> THEN <<>>
    ELSE <<TrialAlone(w, i)>> \o WorkerAlone(w, i + 1)

\* The results of processes w..numProcesses, in worker order.
RECURSIVE AllAlone(_)
AllAlone(w) ==
    IF w > input.numProcesses THEN <<>> ELSE WorkerAlone(w, 0) \o AllAlone(w + 1)

\* The trials of process w, among those it has put a result for, whose grid
\* is all zero after initializeGrid.
ZeroTrials(w) ==
    {k \in 1 .. QLen(emitted[w]) :
        CountVegies(initializeGrid(NewGrid(input.nx, input.ny), input.nx, input.ny,
                                   TrialSeed(input.seed0, w, simsPerProcess, k - 1),
                                   input.probability),
                    input.nx, input.ny) = 0}

\* Process w has put a result, and the grid of the trial whose result it put
\* last was all zero after initializeGrid.  Every result a process puts is
\* the last it has put in the state that follows the put.
LastTrialZero(w) ==
    /\ emitted[w] # <<>>
    /\ CountVegies(initializeGrid(NewGrid(input.nx, input.ny), input.nx, input.ny,
                                  TrialSeed(input.seed0, w, simsPerProcess,
                                            QLen(emitted[w]) - 1),
                                  input.probability),
                   input.nx, input.ny) = 0

\* The scenario nx = ny = 3, probability = 0.0, seed0 = 1, nsims = 4,
\* numProcesses = 2.
Scenario ==
    input = [nx |-> 3, ny |-> 3, probability |-> ProbZero, seed0 |-> 1,
             nsims |-> 4, numProcesses |-> 2]

IsHundredPercent(q) == q[1] = 100 * q[2]
IsZeroPercent(q) == q[1] = 0

\* main has classified every zero-vegetation result it has taken as died.
DiedCounted ==
    ndied = Cardinality({k \in 1 .. Len(consumed) : consumed[k][2] = 0})

(***************************************************************************)
(* C1.  Once main has finished its join-and-drain loop, ndied + nunsettled *)
(* + nstable = numProcesses * (nsims // numProcesses) = nsims - (nsims mod *)
(* numProcesses): every dispatched trial is classified exactly once.       *)
(* Fails: with nx = MAX_X the workers raise IndexError and put nothing.    *)
(***************************************************************************)
C1_AllDispatchedClassified ==
    mainPc \in {"finalize", "done"} =>
        /\ Classified = input.numProcesses * (input.nsims \div input.numProcesses)
        /\ Classified = input.nsims - (input.nsims % input.numProcesses)

(***************************************************************************)
(* C2.  As claimed: after all results have been collected by main,         *)
(* died + unsettled + stabilized = nsims.                                  *)
(***************************************************************************)
C2_AllSimsClassified ==
    mainPc \in {"finalize", "done"} => Classified = input.nsims

(***************************************************************************)
(* C2, amended.  After all results have been collected by main, died +     *)
(* unsettled + stabilized equals the number of results the workers have    *)
(* put, which is at most nsims - (nsims mod numProcesses); it equals nsims *)
(* only if numProcesses divides nsims.                                     *)
(***************************************************************************)
C2_ClassifiedCount ==
    mainPc \in {"finalize", "done"} =>
        /\ Classified = TotalEmitted
        /\ Classified <= input.nsims - (input.nsims % input.numProcesses)
        /\ Classified = input.nsims => input.nsims % input.numProcesses = 0

C2_Witness ==
    /\ mainPc = "done"
    /\ input.nsims % input.numProcesses # 0
    /\ Classified = input.nsims - 1
    /\ Classified > 0

(***************************************************************************)
(* C3.  Main takes a result from the queue of process w only when process  *)
(* w has ended, with everything it put written to the pipe: every get on   *)
(* queue i comes after the join of process i.                              *)
(***************************************************************************)
C3_GetAfterJoin ==
    [][consumed' # consumed =>
          /\ ~proc[mi + 1].alive
          /\ proc[mi + 1].pc \in {"returned", "raised"}
          /\ qbuf[mi + 1] = <<>>]_vars

\* Main has taken a result of process 1 while process 2 is still running.
C3_Witness ==
    /\ input.numProcesses = 2
    /\ mainPc = "drain" /\ mi = 0 /\ consumed # <<>>
    /\ proc[2].alive /\ proc[2].pc = "for"

(***************************************************************************)
(* C4.  The join-before-drain order never leaves main waiting on a worker  *)
(* that is itself waiting for its queued results to be consumed: main is   *)
(* never in join on a process that has returned and cannot end because the *)
(* pipe is full and results are still buffered.  Fails: a worker that has  *)
(* put more results than the pipe holds cannot end before main takes some, *)
(* and main takes none before the worker has ended (SpecJoin, the run of   *)
(* one process with 585 trials on a pipe of 2 pages).                      *)
(***************************************************************************)
C4_NoJoinOnBlockedWorker ==
    ~(/\ mainPc = "join"
      /\ proc[mi + 1].alive /\ proc[mi + 1].pc = "returned"
      /\ qbuf[mi + 1] # <<>> /\ QLen(pipe[mi + 1]) = PipeCap(mi + 1))

(***************************************************************************)
(* C5.  For a fixed list of results, the final counters, totals and        *)
(* averages are those of classifying the list in its own order, whatever   *)
(* the order in which the results were taken.                              *)
(***************************************************************************)
C5_OrderIndependent ==
    pending.done => Agg = Finalize(RecordAll(NewAgg, pending.results))

\* Three results, two of them stabilized and different, taken in an order
\* that is not the order of the list.
C5_Witness ==
    /\ pending.done
    /\ pending.order = <<3, 1, 2>>
    /\ nstable >= 2
    /\ pending.results[1] # pending.results[3]

(***************************************************************************)
(* C6.  The results main takes, in the order it takes them, and the final  *)
(* statistics are a function of (nx, ny, probability, seed0, nsims,        *)
(* numProcesses) alone: every run that ends, whatever the scheduling, ends *)
(* with the same list of pairs and the same aggregate.                     *)
(***************************************************************************)
C6_Deterministic ==
    mainPc = "done" =>
        /\ consumed = AllAlone(1)
        /\ Agg = Finalize(RecordAll(NewAgg, AllAlone(1)))

\* A finished run with two processes, different results within a process.
C6_Witness ==
    /\ mainPc = "done"
    /\ input.numProcesses = 2
    /\ Len(consumed) = 4
    /\ consumed[1] # consumed[2]
    /\ nstable > 0 /\ ndied > 0

(***************************************************************************)
(* C7.  As claimed: a trial whose grid is all zero after initializeGrid    *)
(* returns steps = 1 and vegetation 0 and main counts it as died; in the   *)
(* scenario all 4 trials do, died is 100% and the other two are 0%.        *)
(***************************************************************************)
C7_ZeroGridStepOne ==
    /\ \A w \in Procs : LastTrialZero(w) => QLast(emitted[w]) = <<1, 0>>
    /\ DiedCounted
    /\ Scenario /\ mainPc = "done" =>
          /\ consumed = <<<<1, 0>>, <<1, 0>>, <<1, 0>>, <<1, 0>>>>
          /\ IsHundredPercent(Percentage(ndied, input.nsims))
          /\ IsZeroPercent(Percentage(nunsettled, input.nsims))
          /\ IsZeroPercent(Percentage(nstable, input.nsims))

(***************************************************************************)
(* C7, amended.  A trial whose grid is all zero after initializeGrid, when *)
(* gameOfLife returns, returns steps = 2 (the zero total is counted in     *)
(* step 1, one more update is made and counted) and vegetation 0, and main *)
(* counts it as died; in the scenario all 4 trials do, died is 100% and    *)
(* the other two are 0%.                                                   *)
(***************************************************************************)
C7_ZeroGridStepTwo ==
    /\ \A w \in Procs : LastTrialZero(w) => QLast(emitted[w]) = <<2, 0>>
    /\ DiedCounted
    /\ Scenario /\ mainPc = "done" =>
          /\ consumed = <<<<2, 0>>, <<2, 0>>, <<2, 0>>, <<2, 0>>>>
          /\ IsHundredPercent(Percentage(ndied, input.nsims))
          /\ IsZeroPercent(Percentage(nunsettled, input.nsims))
          /\ IsZeroPercent(Percentage(nstable, input.nsims))

C7_Witness ==
    /\ Scenario /\ mainPc = "done"
    /\ ndied = 4
    /\ \A w \in Procs : ZeroTrials(w) = {1, 2}

(***************************************************************************)
(* C8.  After initializeGrid, with probability 0 every interior cell is 0  *)
(* and with probability 1 every interior cell is 1, for every seed.        *)
(* Fails for probability 0: rand1 is 0.0 for the cell seed 0 and negative  *)
(* for a negative cell seed, neither is > 0.0, and the cell is set to 1.   *)
(***************************************************************************)
C8_InitByProbability ==
    wk.pc = "call" =>
        /\ wk.prob = ProbZero => \A c \in Interior(wk.nx, wk.ny) : wk.grid[c] = 0
        /\ wk.prob = ProbOne => \A c \in Interior(wk.nx, wk.ny) : wk.grid[c] = 1

(***************************************************************************)
(* C9.  The value rand1 returns lies in [0, 1): the last remainder r       *)
(* satisfies 0 <= r < 2147483647.  Fails for negative seeds, whose         *)
(* remainders are negative.                                                *)
(***************************************************************************)
C9_Rand1InUnitInterval ==
    rnd.pc = "done" => 0 <= rnd.sseed /\ rnd.sseed < mm

(***************************************************************************)
(* C10.  Throughout a worker's trials every interior cell is in 0..10,     *)
(* every neighbour sum computed is in 0..80, and the vegetation total      *)
(* gameOfLife returns is in 0..10 * nx * ny.                               *)
(***************************************************************************)
C10_Bounded ==
    wk.pc # "idle" =>
        /\ \A c \in Interior(wk.nx, wk.ny) : wk.grid[c] \in 0 .. 10
        /\ gol.pc # "idle" =>
              /\ \A c \in DOMAIN gol.neighbors : gol.neighbors[c] \in 0 .. 80
              /\ gol.pc = "return" => gol.vegies \in 0 .. 10 * wk.nx * wk.ny
        /\ \A k \in 1 .. Len(wk.queue) : wk.queue[k][2] \in 0 .. 10 * wk.nx * wk.ny

\* A trial in which cells have grown past 1 and a neighbour sum past 15.
C10_Witness ==
    /\ wk.pc = "gol" /\ gol.pc = "return"
    /\ gol.steps > 3
    /\ \E c \in Interior(wk.nx, wk.ny) : wk.grid[c] >= 3
    /\ \E c \in DOMAIN gol.neighbors : gol.neighbors[c] >= 16
    /\ gol.vegies > wk.nx * wk.ny

\* The trials the worker processes have run: <<w, i>> is trial i of process w.
Dispatched == {t \in Procs \X (0 .. simsPerProcess - 1) : t[2] < proc[t[1]].i}

(***************************************************************************)
(* C11.  For any seed0, nsims and numProcesses the seeds seed0 * ((w *      *)
(* simsPerProcess) - i) of the dispatched trials are pairwise distinct,    *)
(* within one worker and across workers.  Fails for seed0 = 0: every trial *)
(* gets the seed 0.                                                        *)
(***************************************************************************)
C11_SeedsDistinct ==
    \A t \in Dispatched : \A u \in Dispatched :
        t # u => TrialSeed(input.seed0, t[1], simsPerProcess, t[2])
                   # TrialSeed(input.seed0, u[1], simsPerProcess, u[2])

(***************************************************************************)
(* C12.  When gameOfLife returns, in any of its terminal states, the       *)
(* vegetation it returns is the sum of the interior cells of the grid as   *)
(* the grid then stands (stated for maxSteps >= 2, where a total has been  *)
(* counted).  Fails at the step limit: the total is counted before the     *)
(* last update and returned after it.                                      *)
(***************************************************************************)
C12_ReturnsFinalTotal ==
    wk.pc = "gol" /\ gol.pc = "return" /\ gol.maxSteps >= 2 =>
        gol.vegies = CountVegies(wk.grid, wk.nx, wk.ny)

\* The exit conditions of the loop of line 110 on the frame g.
ExitConverged(g) == g.converged
ExitExtinct(g) == g.vegies = 0
ExitStepLimit(g) == g.steps >= g.maxSteps

\* gameOfLife has left its loop, with maxSteps >= 2 and maxUnchanged >= 1.
AtLoopExit ==
    wk.pc = "gol" /\ gol.pc = "return" /\ gol.maxSteps >= 2 /\ gol.maxUnchanged >= 1

(***************************************************************************)
(* C13.  As claimed: when the loop of gameOfLife exits (maxSteps >= 2,     *)
(* maxUnchanged >= 1) exactly one of the three exit conditions holds:      *)
(* converged, or the last counted vegetation is 0, or steps >= maxSteps.   *)
(***************************************************************************)
C13_ExactlyOneExit ==
    AtLoopExit =>
        \/ ExitConverged(gol) /\ ~ExitExtinct(gol) /\ ~ExitStepLimit(gol)
        \/ ~ExitConverged(gol) /\ ExitExtinct(gol) /\ ~ExitStepLimit(gol)
        \/ ~ExitConverged(gol) /\ ~ExitExtinct(gol) /\ ExitStepLimit(gol)

(***************************************************************************)
(* C13, amended.  When the loop exits at least one of the three conditions *)
(* holds, and converged holds together with neither of the other two; the  *)
(* last counted vegetation being 0 and steps >= maxSteps hold together     *)
(* exactly when the total counted in iteration maxSteps - 1 is 0 (the      *)
(* update of that iteration still runs and takes steps to maxSteps).       *)
(***************************************************************************)
C13_ExitConditions ==
    AtLoopExit =>
        /\ ExitConverged(gol) \/ ExitExtinct(gol) \/ ExitStepLimit(gol)
        /\ ExitConverged(gol) => ~ExitExtinct(gol) /\ ~ExitStepLimit(gol)
        /\ ExitExtinct(gol) /\ ExitStepLimit(gol) <=>
              /\ Len(gol.history) = gol.maxSteps - 1
              /\ gol.history[gol.maxSteps - 1] = 0

\* A trial that leaves the loop extinct and at the step limit at once.
C13_Witness ==
    /\ AtLoopExit
    /\ ExitExtinct(gol) /\ ExitStepLimit(gol) /\ ~ExitConverged(gol)
    /\ gol.steps = gol.maxSteps

\* Whether total k of the list h of totals equals one of the (up to) three
\* totals counted immediately before it.
Matches(h, k) == \E d \in 1 .. 3 : k - d >= 1 /\ h[k] = h[k - d]

\* The number of consecutive matching totals that ends with total k of h.
RECURSIVE Streak(_, _)
Streak(h, k) == IF k = 0 \/ ~Matches(h, k) THEN 0 ELSE 1 + Streak(h, k - 1)

(***************************************************************************)
(* C14.  Throughout gameOfLife nUnchanged is the number of consecutive     *)
(* most recent counts whose total equalled one of the (up to) three totals *)
(* counted immediately before it, and 0 after a count that matches none;   *)
(* converged is true exactly from the first count at which that number     *)
(* reaches maxUnchanged, which is the last count made; the first count is  *)
(* never a match, and a converged trial has made at least maxUnchanged + 1 *)
(* counts.                                                                 *)
(***************************************************************************)
C14_StreakCounter ==
    wk.pc = "gol" /\ gol.pc # "idle" =>
        LET h == gol.history
            n == Len(h)
        IN  /\ gol.nUnchanged = Streak(h, n)
            /\ n >= 1 /\ ~Matches(h, n) => gol.nUnchanged = 0
            /\ n = 1 => gol.nUnchanged = 0 /\ ~gol.converged
            /\ gol.converged <=> n >= 1 /\ Streak(h, n) >= gol.maxUnchanged
            /\ \A k \in 1 .. n - 1 : Streak(h, k) < gol.maxUnchanged
            /\ gol.converged => n >= gol.maxUnchanged + 1

\* A trial that has converged after a streak that was broken once: some
\* earlier total matched, a later one reset the counter.
C14_Witness ==
    /\ wk.pc = "gol" /\ gol.pc = "return" /\ gol.converged
    /\ gol.maxUnchanged >= 2
    /\ gol.nUnchanged = gol.maxUnchanged
    /\ Len(gol.history) > gol.maxUnchanged + 1
    /\ \E k \in 2 .. Len(gol.history) : ~Matches(gol.history, k)

\* The interior cell that position c of the window stands for on the torus.
TorusCell(c, nx, ny) == <<((c[1] - 1) % nx) + 1, ((c[2] - 1) % ny) + 1>>

\* The sum of the 8 toroidal neighbours of interior cell c, read from the
\* interior of grid alone.
TorusSum(grid, nx, ny, c) ==
    LET at(di, dj) == grid[TorusCell(<<c[1] + di, c[2] + dj>>, nx, ny)]
    IN  at(-1, -1) + at(-1, 0) + at(-1, 1) + at(0, -1) + at(0, 1)
        + at(1, -1) + at(1, 0) + at(1, 1)

\* The rule: decrement with floor 0 when S >= 25 or S <= 3, increment with
\* ceiling 10 when 4 <= S <= 15, unchanged when 16 <= S <= 24.
RuleF(v, S) ==
    CASE S >= 25 \/ S <= 3 -> (IF v = 0 THEN 0 ELSE v - 1)
      [] S >= 4 /\ S <= 15 -> (IF v = 10 THEN 10 ELSE v + 1)
      [] S >= 16 /\ S <= 24 -> v

(***************************************************************************)
(* C15.  For every nx, ny >= 1, 1 and 2 included, an executed time step of *)
(* gameOfLife sets each interior cell (i, j) to RuleF(old(i, j), S) with S *)
(* the sum of the values before the step at the 8 toroidal positions       *)
(* (((i-1+di) mod nx)+1, ((j-1+dj) mod ny)+1); the wrap leaves the         *)
(* interior alone and gives every ghost cell, the four corners included,   *)
(* the value of the interior cell it stands for before any neighbour is    *)
(* read; the sweep writes the scratch buffer only, so no new value depends *)
(* on another cell's new value.                                            *)
(***************************************************************************)
C15_ToroidalTimeStep ==
    [][wk.pc = "gol" =>
          /\ gol.pc = "wrap" =>
                \A c \in Window(wk.nx, wk.ny) :
                    wk'.grid[c] = wk.grid[TorusCell(c, wk.nx, wk.ny)]
          /\ gol.pc = "step" /\ gol'.pc = "copy" =>
                /\ wk'.grid = wk.grid
                /\ \A c \in Interior(wk.nx, wk.ny) :
                      /\ gol'.neighbors[c] = TorusSum(wk.grid, wk.nx, wk.ny, c)
                      /\ gol'.tempGrid[c] = RuleF(wk.grid[c], gol'.neighbors[c])
          /\ gol.pc = "copy" =>
                \A c \in Interior(wk.nx, wk.ny) :
                    wk'.grid[c] = RuleF(wk.grid[c], TorusSum(wk.grid, wk.nx, wk.ny, c))
      ]_vars

\* A time step on a grid with a side of 2, about to be copied back, in which
\* one cell grows and another shrinks, with a corner ghost cell that is not 0.
C15_Witness ==
    /\ wk.pc = "gol" /\ gol.pc = "copy"
    /\ wk.nx = 2
    /\ \E c \in Interior(wk.nx, wk.ny) : gol.tempGrid[c] > wk.grid[c]
    /\ \E c \in Interior(wk.nx, wk.ny) : gol.tempGrid[c] < wk.grid[c]
    /\ wk.grid[<<0, 0>>] > 0

\* The last total counted in the call of frame g.
LastCounted(g) == g.history[Len(g.history)]

(***************************************************************************)
(* C16.  For every trial with maxSteps >= 2 the class main derives from    *)
(* the returned pair (steps, vegies) agrees with the way gameOfLife left   *)
(* its loop: stable if and only if converged became true, died if and only *)
(* if the last counted total was 0, unsettled if and only if steps reached *)
(* maxSteps with a last counted total above 0.                             *)
(***************************************************************************)
C16_ClassAgreesWithExit ==
    wk.pc = "gol" /\ gol.pc = "return" /\ gol.maxSteps >= 2 =>
        LET class == Classify(<<gol.steps, gol.vegies>>, gol.maxSteps)
        IN  /\ gol.history # <<>>
            /\ class = "stable" <=> gol.converged
            /\ class = "died" <=> LastCounted(gol) = 0
            /\ class = "unsettled" <=>
                  gol.steps >= gol.maxSteps /\ LastCounted(gol) > 0

\* A trial that converged in the last iteration the step limit allows, and
\* one whose result main will count as stable.
C16_Witness ==
    /\ wk.pc = "gol" /\ gol.pc = "return" /\ gol.maxSteps >= 2
    /\ gol.converged /\ gol.steps = gol.maxSteps - 1
    /\ Classify(<<gol.steps, gol.vegies>>, gol.maxSteps) = "stable"

\* The updates (lines 149-190) the call of frame g has executed to the end:
\* every iteration counts once and then updates, except the converging one
\* and the one that is still at its update.
UpdatesDone(g) ==
    Len(g.history) - (IF g.converged THEN 1 ELSE 0)
                   - (IF g.pc \in {"wrap", "step", "copy", "IndexError"} THEN 1 ELSE 0)

(***************************************************************************)
(* C17.  For every initial grid and every maxSteps >= 1 gameOfLife makes   *)
(* at most maxSteps - 1 passes of its loop, so it ends, and the counter it *)
(* returns satisfies 1 <= steps <= maxSteps: steps is 1 plus the number of *)
(* updates executed, the converging iteration, which executes none, leaves *)
(* it alone.                                                               *)
(***************************************************************************)
C17_StepsBounded ==
    wk.pc = "gol" /\ gol.pc # "idle" =>
        /\ gol.maxSteps >= 1
        /\ Len(gol.history) <= gol.maxSteps - 1
        /\ gol.steps = 1 + UpdatesDone(gol)
        /\ 1 <= gol.steps /\ gol.steps <= gol.maxSteps
        /\ gol.converged => gol.steps = Len(gol.history) /\ gol.pc \in {"while", "return"}

\* A trial that returns at the step limit after maxSteps - 1 passes.
C17_Witness ==
    /\ wk.pc = "gol" /\ gol.pc = "return"
    /\ gol.maxSteps = 4 /\ gol.steps = 4 /\ Len(gol.history) = 3
    /\ gol.vegies > 0 /\ ~gol.converged

\* What trial i of the worker returns when it is run on a buffer and a
\* scratch buffer of its own, all zero before initializeGrid: a function of
\* (nx, ny, maxSteps, maxUnchanged, prob, the trial's seed).
FreshTrial(i) ==
    LET seed == TrialSeed(wk.seed0, wk.myProcess, wk.mySims, i)
        grid == initializeGrid(NewGrid(wk.nx, wk.ny), wk.nx, wk.ny, seed, wk.prob)
        st == gameOfLife(grid, wk.nx, wk.ny, wk.maxSteps, wk.maxUnchanged)
    IN  <<st.g.steps, st.g.vegies>>

(***************************************************************************)
(* C18.  The buffer a worker reuses leaks nothing from a trial to the      *)
(* next: every result the worker has put is the result of the same trial   *)
(* run on a fresh buffer, so it depends on (nx, ny, maxSteps,              *)
(* maxUnchanged, prob, seed) only, whatever the trial before it left in    *)
(* the interior cells, the ghost cells and the scratch buffer.             *)
(***************************************************************************)
C18_NoLeakBetweenTrials ==
    wk.pc \in {"for", "returned"} =>
        \A k \in 1 .. Len(wk.queue) : wk.queue[k] = FreshTrial(k - 1)

\* A worker's second trial has ended on a buffer in which the first trial
\* had left vegetation, in interior and ghost cells, that the second trial's
\* initial grid does not have.
C18_Witness ==
    /\ wk.pc = "for" /\ wk.i >= 2 /\ Len(wk.queue) >= 2
    /\ wk.queue[1][2] > 0
    /\ wk.queue[1] # wk.queue[2]
    /\ wk.initVegies < wk.nx * wk.ny
    /\ wk.initVegies < wk.queue[1][2]

(***************************************************************************)
(* C19.  For every 1 <= nx <= MAX_X and 1 <= ny <= MAX_Y, the two maxima   *)
(* included, every index a trial uses on the grid buffer and on tempGrid   *)
(* is inside the allocation, and no trial ends with an index error.        *)
(* Fails for nx = MAX_X and for ny = MAX_Y: tempGrid has the indices       *)
(* 0..MAX - 1 and the sweep writes tempGrid[i][j] for i up to nx and j up  *)
(* to ny.                                                                  *)
(***************************************************************************)
C19_IndicesInRange ==
    wk.pc # "idle" =>
        /\ wk.nx \in 1 .. MAX_X /\ wk.ny \in 1 .. MAX_Y
        /\ \A c \in {<<0, 0>>, <<wk.nx + 1, wk.ny + 1>>} : GridIndexOK(c[1], c[2])
        /\ gol.pc # "IndexError"
        /\ wk.pc # "raised"

\* The multiplier of seed0 in the seed of trial t = <<w, i>>.
Multiplier(t) == TrialSeed(1, t[1], simsPerProcess, t[2])

\* All the trials of the run.
Trials == Procs \X (0 .. simsPerProcess - 1)

\* The results of the same input run by one process, in its order: trial
\* k - 1 of process 1 of 1, with nsims trials a process.
OneProcessResults ==
    [k \in 1 .. input.nsims |->
        LET seed == TrialSeed(input.seed0, 1, input.nsims, k - 1)
            grid == initializeGrid(NewGrid(input.nx, input.ny), input.nx, input.ny,
                                   seed, input.probability)
            st == gameOfLife(grid, input.nx, input.ny, maxSteps, maxUnchanged)
        IN  <<st.g.steps, st.g.vegies>>]

\* How many times the result r occurs in the list s.
Occurrences(s, r) == Cardinality({k \in 1 .. Len(s) : s[k] = r})

\* How many times the result r occurs in the list of runs q.
RECURSIVE QCount(_, _)
QCount(q, r) ==
    IF q = <<>> THEN 0
    ELSE (IF q[1][1] = r THEN q[1][2] ELSE 0) + QCount(Tail(q), r)

\* How many times the result r has been put by the processes 1..w.
RECURSIVE EmittedOccurrences(_, _)
EmittedOccurrences(r, w) ==
    IF w = 0 THEN 0 ELSE EmittedOccurrences(r, w - 1) + QCount(emitted[w], r)

\* numProcesses divides nsims and every worker has run all its trials.
AllTrialsRun ==
    /\ input.nsims % input.numProcesses = 0
    /\ \A w \in Procs : proc[w].pc = "returned"

(***************************************************************************)
(* C20.  When numProcesses divides nsims, the seed multipliers             *)
(* (w * simsPerProcess) - i of the trials are the numbers 1..nsims, each   *)
(* once (there are nsims trials and every number is some trial's); the     *)
(* results the workers put are, as a multiset, the results of the same     *)
(* input run by one process, and so are the final statistics: they do not  *)
(* depend on how the trials are divided among processes.                   *)
(***************************************************************************)
C20_PartitionIndependent ==
    AllTrialsRun =>
        LET one == Evaluated(OneProcessResults)
        IN  /\ {Multiplier(t) : t \in Trials} = 1 .. input.nsims
            /\ Cardinality(Trials) = input.nsims
            /\ TotalEmitted = input.nsims
            /\ \A r \in {one[k] : k \in 1 .. input.nsims} :
                  EmittedOccurrences(r, input.numProcesses) = Occurrences(one, r)
            /\ mainPc = "done" => Agg = Finalize(RecordAll(NewAgg, one))

\* A finished run of 4 trials on 2 processes whose results, in the order main
\* took them, are not in the order one process would have produced them.
C20_Witness ==
    /\ AllTrialsRun /\ mainPc = "done"
    /\ input.numProcesses = 2 /\ input.nsims = 4
    /\ consumed # OneProcessResults
    /\ nstable = 4

=============================================================================
